---- MODULE Spec2Model ----
(***************************************************************************)
(* A model of nina_helper.py: the split generators gen_split_balanced and  *)
(* gen_split_rand, the repetition segmenter and label remapper of          *)
(* import_db1, and the window extractor get_windows with get_idxs.         *)
(*                                                                         *)
(* numpy arrays are modelled with Python's indices: a one-dimensional      *)
(* array of the segmenter or the window extractor is a function on         *)
(* 0..n-1; the tables of the split generators are sequences of rows and    *)
(* row r of the code is element r+1.                                       *)
(***************************************************************************)
EXTENDS Integers, Sequences, FiniteSets, TLC

\* ------------------------------------------------------------------ bounds

\* Largest number of repetition ids handed to the split generators.
MaxReps == 4
\* Largest nb_splits handed to gen_split_rand.
MaxSplits == 3
\* Largest number of samples of a recording handed to the segmenter.
MaxSamples == 8
\* Largest rest_length_cap, in hundredths of a second.
MaxCap == 3
\* Largest value of the raw repetition stream.
MaxRawRep == 2
\* Largest number of samples handed to get_windows.
MaxObs == 4
\* Largest raw movement label of a session file.
MaxLabel == 2

\* ------------------------------------------------------- program constants

\* gen_split_balanced restarts after this many consecutive rejected draws.
ResetLimit == 10

\* The sample rate of DB1 (import_db1).
Fs == 100

\* Python's None (the default of base and of which_moves).
None == <<>>

\* ------------------------------------------------------------------- state

VARIABLES
    pc,               \* position in the function being run
    \* gen_split_balanced / gen_split_rand
    mode,             \* "balanced" | "rand" | "idle"
    rep_ids,          \* the repetition ids, a sequence
    nb_test,          \* test ids per fold
    nb_splits,        \* folds to produce
    base,             \* None or the pinned test set of fold 0
    all_combos,       \* the pool of combinations not drawn yet
    all_combos_copy,  \* the pool a restart restores
    test_reps,        \* the test table, one row per fold
    train_reps,       \* the train table, one row per fold
    cur_split,        \* index of the fold being drawn (0-based)
    reset_counter,    \* consecutive rejected draws
    \* import_db1: the segmenter
    move,             \* the movement label stream, after line 246
    rep_unique,       \* np.unique(rep) of the raw repetition stream
    rest_length_cap,  \* the cap, in hundredths of a second
    move_regions,     \* the transition indices
    rep_regions,      \* the region boundary table, flat
    nb_reps,          \* number of blocks
    last_end_idx,     \* the cursor
    nb_unique_reps,   \* the cycle length
    nb_capped,        \* the truncation counter
    cur_rep,          \* the repetition index being assigned
    rep,              \* the refined repetition labels (line 257 on)
    i,                \* the loop variable of line 258
    \* import_db1: the label remapper
    restimulus,       \* the raw movement labels of the three session files
    \* get_windows
    which_reps,       \* the repetition ids asked for
    which_moves,      \* None or the movement ids asked for
    window_len,
    window_inc,
    emg,              \* the signal; each row is modelled by its index
    movements,        \* the movement label of each sample
    repetitons,       \* the repetition label of each sample
    targets,          \* the window end positions, as get_idxs returned them
    X_data,           \* the windows, each the sequence of its rows
    Y_data,           \* the movement label of each window
    R_data,           \* the repetition label of each window
    \* get_idxs called on its own
    given_array,      \* the in_array get_idxs is called with
    given_values,     \* the to_find get_idxs is called with
    idxs              \* what get_idxs returned

splitVars == <<mode, rep_ids, nb_test, nb_splits, base, all_combos,
               all_combos_copy, test_reps, train_reps, cur_split, reset_counter>>

segInputs == <<move, rep_unique, rest_length_cap>>

segState == <<move_regions, rep_regions, nb_reps, last_end_idx, nb_unique_reps,
              nb_capped, cur_rep, rep, i>>

segVars == <<segInputs, move_regions, rep_regions, nb_reps, last_end_idx,
             nb_unique_reps, nb_capped, cur_rep, rep, i>>

winInputs == <<which_reps, which_moves, window_len, window_inc, emg, movements,
               repetitons>>

winVars == <<winInputs, targets, X_data, Y_data, R_data>>

idxVars == <<given_array, given_values, idxs>>

nonSplitVars == <<segVars, restimulus, winVars, idxVars>>

nonSegVars == <<splitVars, restimulus, winVars, idxVars>>

nonWinVars == <<splitVars, segVars, restimulus, idxVars>>

nonIdxVars == <<splitVars, segVars, restimulus, winVars>>

vars == <<pc, splitVars, segVars, restimulus, winVars, idxVars>>

\* ----------------------------------------------------------------- helpers

Range(s) == {s[j] : j \in 1..Len(s)}

SetMax(S) == CHOOSE x \in S : \A y \in S : y <= x

SetMin(S) == CHOOSE x \in S : \A y \in S : x <= y

\* The elements of a finite set of integers in ascending order.
RECURSIVE SortedSeq(_)
SortedSeq(S) ==
    IF S = {} THEN <<>>
    ELSE <<SetMin(S)>> \o SortedSeq(S \ {SetMin(S)})

\* itertools.combinations(s, k) reshaped to rows of k: the k-subsequences of
\* s in the order itertools emits them.
RECURSIVE Combinations(_, _)
Combinations(s, k) ==
    IF k = 0 THEN << <<>> >>
    ELSE IF Len(s) < k THEN <<>>
    ELSE LET withHead == Combinations(Tail(s), k - 1)
         IN  [j \in 1..Len(withHead) |-> <<Head(s)>> \o withHead[j]]
                 \o Combinations(Tail(s), k)

\* np.zeros((rows, cols), dtype=int)
Zeros(rows, cols) == [r \in 1..rows |-> [c \in 1..cols |-> 0]]

\* np.delete(pool, idx, axis=0), idx 0-based.
DeleteRowKeep(pool, idx) == pool

DeleteRow(pool, idx) ==
    [j \in 1..(Len(pool) - 1) |-> IF j <= idx THEN pool[j] ELSE pool[j + 1]]

\* A row assigned to, or compared with, rows of k elements: numpy repeats a
\* row of one element k times and rejects every other length but k.
Broadcastable(b, k) == Len(b) = k \/ Len(b) = 1

BroadcastRow(b, k) == IF Len(b) = 1 THEN [c \in 1..k |-> b[1]] ELSE b

\* np.where(np.all(all_combos == base, axis=1))[0]: the 0-based rows of the
\* pool equal to base (base has the rows' length).
BaseRowsAnyOrder(pool, b) ==
    {j - 1 : j \in {k \in 1..Len(pool) : Range(pool[k]) = Range(b)}}

BaseRows(pool, b) == {j - 1 : j \in {k \in 1..Len(pool) : pool[k] = b}}

\* np.setdiff1d(a, b): the sorted distinct values of a that are not in b.
Setdiff1d(a, b) == SortedSeq(Range(a) \ Range(b))

\* train_reps[i, :] = np.setdiff1d(rep_ids, test_reps[i, :]) for 0-based fold i.
TrainRowOfFirstFold(ids, tests, fold) == Setdiff1d(ids, tests[1])

TrainRow(ids, tests, fold) == Setdiff1d(ids, tests[fold + 1])

\* How often value v occurs in the rows 0..upto-1 of a table.
CountIn(tests, upto, v) ==
    Cardinality({<<r, c>> \in (1..upto) \X (1..nb_test) : tests[r][c] = v})

\* _, counts = np.unique(test_reps[:cur_split + 1], return_counts=True);
\* max(counts) > nb_test
OverTestedBeforeDraw(tests, cs) ==
    \E r \in 1..cs : \E c \in 1..nb_test : CountIn(tests, cs, tests[r][c]) > nb_test

OverTestedAtLimit(tests, cs) ==
    \E r \in 1..(cs + 1) : \E c \in 1..nb_test :
        CountIn(tests, cs + 1, tests[r][c]) >= nb_test

OverTested(tests, cs) ==
    \E r \in 1..(cs + 1) : \E c \in 1..nb_test :
        CountIn(tests, cs + 1, tests[r][c]) > nb_test

\* test_reps with row r (0-based) replaced.
SetRow(tests, r, row) == [tests EXCEPT ![r + 1] = row]

\* --------------------------------------------------- gen_split_balanced

\* The table a restart builds: zeros, with base in fold 0 when base is given.
FreshTests ==
    IF base # None
    THEN SetRow(Zeros(nb_splits, nb_test), 0, BroadcastRow(base, nb_test))
    ELSE Zeros(nb_splits, nb_test)

FirstSplit == IF base # None THEN 1 ELSE 0

Fail ==
    /\ pc' = "error"
    /\ UNCHANGED <<splitVars, nonSplitVars>>

\* Line 717: reset_counter >= 10 or all_combos.shape[0] == 0.
RestartDueOnlyWhenEmpty(retries, poolSize) == poolSize = 0

RestartDue(retries, poolSize) == retries >= ResetLimit \/ poolSize = 0

\* The values of np.random.randint(0, n) that are explored: every index for
\* up to MaxReps ids; the first and the last index for a call with more ids,
\* whose draws are too many to follow all of them.
RandomIndices(n) ==
    IF Len(rep_ids) <= MaxReps THEN 0..(n - 1) ELSE {0, n - 1}

\* Lines 696-715: the tables, the combinations, base pinned as fold 0.
BalancedSetup ==
    /\ pc = "balanced_start"
    /\ IF nb_test > Len(rep_ids)
       THEN Fail    \* np.zeros with a negative dimension
       ELSE LET combos == Combinations(rep_ids, nb_test)
                row == BroadcastRow(base, nb_test)
            IN
            IF base # None /\ ~Broadcastable(base, nb_test)
            THEN Fail    \* test_reps[0, :] = base with a row of another length
            ELSE IF base # None /\ BaseRows(combos, row) = {}
            THEN Fail    \* [0][0] of an empty np.where
            ELSE LET pool == IF base # None
                             THEN DeleteRow(combos, SetMin(BaseRows(combos, row)))
                             ELSE combos
                 IN /\ all_combos' = pool
                    /\ all_combos_copy' = pool
                    /\ test_reps' = FreshTests
                    /\ train_reps' = Zeros(nb_splits, Len(rep_ids) - nb_test)
                    /\ cur_split' = FirstSplit
                    /\ reset_counter' = 0
                    /\ pc' = "balanced_loop"
                    /\ UNCHANGED <<mode, rep_ids, nb_test, nb_splits, base, nonSplitVars>>

\* Lines 716-740: one pass of the while loop: the restart when it is due,
\* the draw, the balance check.
BalancedDraw ==
    /\ pc = "balanced_loop"
    /\ cur_split < nb_splits
    /\ LET restart == RestartDue(reset_counter, Len(all_combos))
           pool == IF restart THEN all_combos_copy ELSE all_combos
           tests == IF restart THEN FreshTests ELSE test_reps
           split == IF restart THEN FirstSplit ELSE cur_split
           retries == IF restart THEN 0 ELSE reset_counter
       IN IF Len(pool) = 0
          THEN Fail    \* np.random.randint(0, 0)
          ELSE \E randomIndex \in RandomIndices(Len(pool)) :
               LET drawn == SetRow(tests, split, pool[randomIndex + 1]) IN
               /\ all_combos' = DeleteRow(pool, randomIndex)
               /\ IF OverTested(drawn, split)
                  THEN /\ test_reps' = SetRow(drawn, split, [c \in 1..nb_test |-> 0])
                       /\ reset_counter' = retries + 1
                       /\ cur_split' = split
                  ELSE /\ test_reps' = drawn
                       /\ reset_counter' = 0
                       /\ cur_split' = split + 1
               /\ pc' = "balanced_loop"
               /\ UNCHANGED <<mode, rep_ids, nb_test, nb_splits, base,
                              all_combos_copy, train_reps, nonSplitVars>>

\* Lines 742-745: the train table, and the return.
BalancedReturn ==
    /\ pc = "balanced_loop"
    /\ cur_split >= nb_splits
    /\ train_reps' = [r \in 1..nb_splits |-> TrainRow(rep_ids, test_reps, r - 1)]
    /\ pc' = "done"
    /\ UNCHANGED <<mode, rep_ids, nb_test, nb_splits, base, all_combos,
                   all_combos_copy, test_reps, cur_split, reset_counter, nonSplitVars>>

\* ------------------------------------------------------- gen_split_rand

\* Lines 760-774.  cur_split is the loop variable i of lines 776-780.
RandSetup ==
    /\ pc = "rand_start"
    /\ IF nb_test > Len(rep_ids)
       THEN Fail    \* np.zeros with a negative dimension
       ELSE LET combos == Combinations(rep_ids, nb_test)
                trains == Zeros(nb_splits, Len(rep_ids) - nb_test)
                tests == Zeros(nb_splits, nb_test)
                row == BroadcastRow(base, nb_test)
            IN
            IF base = None
            THEN /\ all_combos' = combos
                 /\ test_reps' = tests
                 /\ train_reps' = trains
                 /\ cur_split' = 0
                 /\ pc' = "rand_loop"
                 /\ UNCHANGED <<mode, rep_ids, nb_test, nb_splits, base,
                                all_combos_copy, reset_counter, nonSplitVars>>
            ELSE IF nb_splits = 0 \/ ~Broadcastable(base, nb_test)
            THEN Fail    \* test_reps[0, :] = base: no row 0, or another length
            ELSE IF BaseRows(combos, row) = {}
            THEN Fail    \* [0][0] of an empty np.where
            ELSE /\ all_combos' = DeleteRow(combos, SetMin(BaseRows(combos, row)))
                 /\ test_reps' = SetRow(tests, 0, row)
                 /\ train_reps' = SetRow(trains, 0,
                                         TrainRow(rep_ids, SetRow(tests, 0, row), 0))
                 /\ cur_split' = 1
                 /\ pc' = "rand_loop"
                 /\ UNCHANGED <<mode, rep_ids, nb_test, nb_splits, base,
                                all_combos_copy, reset_counter, nonSplitVars>>

\* Lines 776-780: one pass of the for loop.
RandDraw ==
    /\ pc = "rand_loop"
    /\ cur_split < nb_splits
    /\ IF Len(all_combos) = 0
       THEN Fail    \* np.random.randint(0)
       ELSE \E rand_idx \in 0..(Len(all_combos) - 1) :
            LET drawn == SetRow(test_reps, cur_split, all_combos[rand_idx + 1]) IN
            /\ test_reps' = drawn
            /\ train_reps' = SetRow(train_reps, cur_split,
                                    TrainRow(rep_ids, drawn, cur_split))
            /\ all_combos' = DeleteRow(all_combos, rand_idx)
            /\ cur_split' = cur_split + 1
            /\ pc' = "rand_loop"
            /\ UNCHANGED <<mode, rep_ids, nb_test, nb_splits, base,
                           all_combos_copy, reset_counter, nonSplitVars>>

\* Line 782.
RandReturn ==
    /\ pc = "rand_loop"
    /\ cur_split >= nb_splits
    /\ pc' = "done"
    /\ UNCHANGED <<splitVars, nonSplitVars>>

\* ------------------------------------------------ the split generators' runs

\* The ids 1..n in order.
Ids(n) == [j \in 1..n |-> j]

\* base: None, or any row of nb_test values (a combination in the
\* enumeration's order, a reordered one, one with a repeated id, one with a
\* value that is no id), or a row that is one value short.
BaseChoices(ids, k) ==
    {None} \cup [1..k -> Range(ids) \cup {Len(ids) + 1}]
           \cup (IF k >= 2 THEN [1..(k - 1) -> Range(ids)] ELSE {})

\* The remapper's input while another function runs.
IdleRemap == restimulus = <<>>

\* get_windows' variables while another function runs.
IdleWin ==
    /\ which_reps = <<>>
    /\ which_moves = None
    /\ window_len = 0
    /\ window_inc = 0
    /\ emg = <<>>
    /\ movements = <<>>
    /\ repetitons = <<>>
    /\ targets = <<>>
    /\ X_data = <<>>
    /\ Y_data = <<>>
    /\ R_data = <<>>

\* get_idxs' variables while it is not called on its own.
IdleIdx ==
    /\ given_array = <<>>
    /\ given_values = <<>>
    /\ idxs = <<>>

\* The segmenter's variables while another function runs.
IdleSeg ==
    /\ move = <<>>
    /\ rep_unique = {}
    /\ rest_length_cap = 0
    /\ move_regions = <<>>
    /\ rep_regions = <<>>
    /\ nb_reps = 0
    /\ last_end_idx = 0
    /\ nb_unique_reps = 0
    /\ nb_capped = 0
    /\ cur_rep = 0
    /\ rep = <<>>
    /\ i = 0

InitSplit ==
    /\ IdleSeg
    /\ IdleIdx
    /\ IdleRemap
    /\ IdleWin
    /\ mode \in {"balanced", "rand"}
    /\ \E n \in 1..MaxReps : rep_ids = Ids(n)
    /\ nb_test \in 1..(Len(rep_ids) + 1)
    /\ base \in BaseChoices(rep_ids, nb_test)
    /\ nb_splits \in IF mode = "balanced" THEN {Len(rep_ids)} ELSE 0..MaxSplits
    /\ pc = IF mode = "balanced" THEN "balanced_start" ELSE "rand_start"
    /\ all_combos = <<>>
    /\ all_combos_copy = <<>>
    /\ test_reps = <<>>
    /\ train_reps = <<>>
    /\ cur_split = 0
    /\ reset_counter = 0

\* A call of gen_split_balanced with enough ids for ten rejected draws in a
\* row: MaxReps + 2 ids, MaxReps of them tested per fold, without base or
\* with the first combination as base.
InitSplitLong ==
    /\ IdleSeg
    /\ IdleIdx
    /\ IdleRemap
    /\ IdleWin
    /\ mode = "balanced"
    /\ rep_ids = Ids(MaxReps + 2)
    /\ nb_test = MaxReps
    /\ base \in {None, Ids(MaxReps)}
    /\ nb_splits = Len(rep_ids)
    /\ pc = "balanced_start"
    /\ all_combos = <<>>
    /\ all_combos_copy = <<>>
    /\ test_reps = <<>>
    /\ train_reps = <<>>
    /\ cur_split = 0
    /\ reset_counter = 0

NextSplit ==
    \/ BalancedSetup
    \/ BalancedDraw
    \/ BalancedReturn
    \/ RandSetup
    \/ RandDraw
    \/ RandReturn

SpecSplit == InitSplit /\ [][NextSplit]_vars

\* A table the loop of gen_split_balanced can end with, as a sequence of
\* folds: with the ids taken in a circle, base's ids first, fold r holds the
\* nb_test ids from place r on.  The folds differ, every id is in nb_test of
\* them, and fold 0 is base when base is given.
BalancedTable ==
    LET n == Len(rep_ids)
        circle == IF base = None THEN rep_ids
                  ELSE base \o SortedSeq(Range(rep_ids) \ Range(base))
    IN  [r \in 1..n |->
            SortedSeq({circle[((r - 1 + c) % n) + 1] : c \in 0..(nb_test - 1)})]

\* The pass of the loop in which np.random.randint (line 728) returns the
\* index of fold j of that table when the folds before it are its folds.
DesignDraw(j) ==
    /\ mode = "balanced"
    /\ nb_test < Len(rep_ids)
    /\ j <= nb_splits
    /\ BalancedDraw
    /\ cur_split' = j
    /\ reset_counter' = 0
    /\ \A r \in 1..j : test_reps'[r] = BalancedTable[r]

\* The calls of SpecSplit with every step taken in the end and fair random
\* draws: an index that can be drawn again and again is drawn in the end.
SpecSplitFair ==
    /\ InitSplit
    /\ [][NextSplit]_vars
    /\ WF_vars(NextSplit)
    /\ \A j \in 1..MaxReps : SF_vars(DesignDraw(j))

\* The calls of SpecSplit and the calls with MaxReps + 2 ids.
SpecSplitLong == (InitSplit \/ InitSplitLong) /\ [][NextSplit]_vars

\* ------------------------------------------------- import_db1: segmenter

\* A sequence as an array indexed from 0.
ZeroBased(seq) == [k \in 0..(Len(seq) - 1) |-> seq[k + 1]]

Size(arr) == Cardinality(DOMAIN arr)

\* np.zeros((n,)).
ZerosArray(n) == [k \in 0..(n - 1) |-> 0]

\* int(round(num / 2)): Python 3 rounds a half to the even neighbour.
RoundHalfUp(num) == (num + 1) \div 2

RoundHalf(num) ==
    IF num % 2 = 0 THEN num \div 2
    ELSE IF (num \div 2) % 2 = 0 THEN num \div 2 ELSE (num \div 2) + 1

\* np.where(np.diff(move))[0]: the indices p with move[p] # move[p + 1].
MoveRegionsEdges(m) ==
    ZeroBased(SortedSeq({p \in 0..(Size(m) - 2) : m[p] # m[p + 1]}
                            \cup {0, Size(m) - 1}))

MoveRegions(m) ==
    ZeroBased(SortedSeq({p \in 0..(Size(m) - 2) : m[p] # m[p + 1]}))

\* A slice bound as Python reads it for an array of n elements.
SliceBound(x, n) ==
    IF x < 0 THEN (IF x + n < 0 THEN 0 ELSE x + n)
    ELSE IF x > n THEN n ELSE x

\* arr[a:b] = v
SetSliceInclusive(arr, a, b, v) ==
    [p \in DOMAIN arr |->
        IF SliceBound(a, Size(arr)) <= p /\ p <= SliceBound(b, Size(arr))
        THEN v ELSE arr[p]]

SetSlice(arr, a, b, v) ==
    [p \in DOMAIN arr |->
        IF SliceBound(a, Size(arr)) <= p /\ p < SliceBound(b, Size(arr))
        THEN v ELSE arr[p]]

\* rest_length_cap * fs, and int(round(rest_length_cap * fs)): the cap is a
\* whole number of hundredths of a second, so both are this number of samples.
CapSamples == (rest_length_cap * Fs) \div 100

\* Line 260: the end (exclusive) of block blk when its rest is kept whole.
MidpointIdx(regions, blk) ==
    RoundHalf(regions[2 * (blk + 1) - 1] + regions[2 * (blk + 1)]) + 1

\* Line 263.
TrailingRestSamps(regions, blk) ==
    MidpointIdx(regions, blk) - regions[2 * (blk + 1) - 1]

\* Line 264, negated: the rest after block blk is truncated.
OverCap(regions, blk) == TrailingRestSamps(regions, blk) > CapSamples

\* Line 276.
NextCappedByOne(n) == n + 1

NextCapped(n) == n + 2

\* Lines 267 and 275: the inclusive end recorded for a block whose labels
\* were written up to endExclusive.
RecordedEndExclusive(endExclusive) == endExclusive

RecordedEnd(endExclusive) == endExclusive - 1

\* Lines 278-280.
NextRepNoWrap(cur, cycle) == cur + 1

NextRep(cur, cycle) == IF cur + 1 > cycle THEN 1 ELSE cur + 1

SegFail ==
    /\ pc' = "seg_error"
    /\ UNCHANGED <<segVars, nonSegVars>>

\* Lines 249-257.
SegSetup ==
    /\ pc = "seg_start"
    /\ LET regions == MoveRegions(move) IN
       IF Size(regions) = 0
       THEN SegFail    \* move_regions[0] of an empty array
       ELSE /\ move_regions' = regions
            /\ rep_regions' = ZerosArray(Size(regions))
            /\ nb_reps' = RoundHalf(Size(regions))
            /\ last_end_idx' = RoundHalf(regions[0])
            /\ nb_unique_reps' = Cardinality(rep_unique) - 1
            /\ nb_capped' = 0
            /\ cur_rep' = 1
            /\ rep' = ZerosArray(Size(move))
            /\ i' = 0
            /\ pc' = "seg_loop"
            /\ UNCHANGED <<segInputs, nonSegVars>>

\* Lines 258-280: one pass of the for loop.
SegBlock ==
    /\ pc = "seg_loop"
    /\ i < nb_reps - 1
    /\ LET midpoint_idx == MidpointIdx(move_regions, i)
           rep_end_idx == move_regions[2 * (i + 1) - 1] + CapSamples
       IN IF ~OverCap(move_regions, i)
          THEN /\ rep' = SetSlice(rep, last_end_idx, midpoint_idx, cur_rep)
               /\ last_end_idx' = midpoint_idx
               /\ rep_regions' = [rep_regions EXCEPT
                                     ![2 * i] = last_end_idx,
                                     ![2 * i + 1] = RecordedEnd(midpoint_idx)]
               /\ nb_capped' = nb_capped
          ELSE /\ rep' = SetSlice(rep, last_end_idx, rep_end_idx, cur_rep)
               /\ last_end_idx' = move_regions[2 * (i + 1)] - CapSamples
               /\ rep_regions' = [rep_regions EXCEPT
                                     ![2 * i] = last_end_idx,
                                     ![2 * i + 1] = RecordedEnd(rep_end_idx)]
               /\ nb_capped' = NextCapped(nb_capped)
    /\ cur_rep' = NextRep(cur_rep, nb_unique_reps)
    /\ i' = i + 1
    /\ pc' = "seg_loop"
    /\ UNCHANGED <<segInputs, move_regions, nb_reps, nb_unique_reps, nonSegVars>>

\* Lines 282-292: the last block, and the return.
SegLastBlock ==
    /\ pc = "seg_loop"
    /\ i >= nb_reps - 1
    /\ LET end_idx == RoundHalf(Size(move) + move_regions[Size(move_regions) - 1])
           nbRegions == Size(rep_regions)
       IN IF nbRegions < 2
          THEN SegFail    \* rep_regions[-2] of an array of one element
          ELSE /\ rep' = SetSlice(rep, last_end_idx, end_idx, cur_rep)
               /\ rep_regions' = [rep_regions EXCEPT
                                     ![nbRegions - 2] = last_end_idx,
                                     ![nbRegions - 1] = RecordedEnd(end_idx)]
               /\ pc' = "seg_done"
               /\ UNCHANGED <<segInputs, move_regions, nb_reps, last_end_idx,
                              nb_unique_reps, nb_capped, cur_rep, i, nonSegVars>>

\* The split generators' variables while another function runs.
IdleSplit ==
    /\ mode = "idle"
    /\ rep_ids = <<>>
    /\ nb_test = 0
    /\ nb_splits = 0
    /\ base = None
    /\ all_combos = <<>>
    /\ all_combos_copy = <<>>
    /\ test_reps = <<>>
    /\ train_reps = <<>>
    /\ cur_split = 0
    /\ reset_counter = 0

\* The movement labels of the modelled recordings: rest and one gesture
\* (the segmenter reads only where the label changes).
MoveLabels == {0, 1}

InitSeg ==
    /\ IdleSplit
    /\ IdleIdx
    /\ IdleRemap
    /\ IdleWin
    /\ pc = "seg_start"
    /\ \E n \in 1..MaxSamples : move \in [0..(n - 1) -> MoveLabels]
    /\ rep_unique \in {S \in SUBSET (0..MaxRawRep) :
                           S # {} /\ Cardinality(S) <= Size(move)}
    /\ rest_length_cap \in 0..MaxCap
    /\ move_regions = <<>>
    /\ rep_regions = <<>>
    /\ nb_reps = 0
    /\ last_end_idx = 0
    /\ nb_unique_reps = 0
    /\ nb_capped = 0
    /\ cur_rep = 0
    /\ rep = <<>>
    /\ i = 0

NextSeg ==
    \/ SegSetup
    \/ SegBlock
    \/ SegLastBlock

SpecSeg == InitSeg /\ [][NextSeg]_vars

\* ------------------------------------------- import_db1: label remapper

\* np.append(a, b)
Append1d(a, b) ==
    [p \in 0..(Size(a) + Size(b) - 1) |->
        IF p < Size(a) THEN a[p] ELSE b[p - Size(a)]]

\* max(move)
BuiltinMax(arr) == SetMax({arr[p] : p \in DOMAIN arr})

\* move_tmp[move_tmp != 0] += offset
OffsetEvery(arr, offset) == [p \in DOMAIN arr |-> arr[p] + offset]

OffsetNonzero(arr, offset) ==
    [p \in DOMAIN arr |-> IF arr[p] # 0 THEN arr[p] + offset ELSE arr[p]]

\* The value astype('int8') stores for an integer.
AsInt8(x) == ((x + 128) % 256) - 128

\* Line 228: the first session's labels.
LoadE1 ==
    /\ pc = "remap_e1"
    /\ move' = restimulus[1]
    /\ pc' = "remap_e2"
    /\ UNCHANGED <<rep_unique, rest_length_cap, segState, nonSegVars>>

\* Lines 234-236: the second session's labels, offset and appended.
LoadE2 ==
    /\ pc = "remap_e2"
    /\ move' = Append1d(move, OffsetNonzero(restimulus[2], BuiltinMax(move)))
    /\ pc' = "remap_e3"
    /\ UNCHANGED <<rep_unique, rest_length_cap, segState, nonSegVars>>

\* Lines 242-244: the third session's labels, offset and appended.
LoadE3 ==
    /\ pc = "remap_e3"
    /\ move' = Append1d(move, OffsetNonzero(restimulus[3], BuiltinMax(move)))
    /\ pc' = "remap_cast"
    /\ UNCHANGED <<rep_unique, rest_length_cap, segState, nonSegVars>>

\* Line 246.
CastMove ==
    /\ pc = "remap_cast"
    /\ move' = [p \in DOMAIN move |-> AsInt8(move[p])]
    /\ pc' = "remap_done"
    /\ UNCHANGED <<rep_unique, rest_length_cap, segState, nonSegVars>>

\* The sequences over S of the lengths in lens.
SeqsOfLen(S, lens) == UNION {[1..n -> S] : n \in lens}

\* The lengths of the modelled session files.
SessionLens == {1, 2}

\* An upper bound on the length of every modelled session file.
MaxSessionLen == SetMax(SessionLens) + 2

\* The session of the documented example.
ExampleSession == ZeroBased(<<0, 1, 2, 0>>)

\* The label streams a session file may hold.
Sessions ==
    {ZeroBased(q) : q \in SeqsOfLen(0..MaxLabel, SessionLens)} \cup {ExampleSession}

InitRemap ==
    /\ IdleSplit
    /\ IdleIdx
    /\ IdleWin
    /\ pc = "remap_e1"
    /\ restimulus \in [1..3 -> Sessions]
    /\ move = <<>>
    /\ rep_unique = {}
    /\ rest_length_cap = 0
    /\ move_regions = <<>>
    /\ rep_regions = <<>>
    /\ nb_reps = 0
    /\ last_end_idx = 0
    /\ nb_unique_reps = 0
    /\ nb_capped = 0
    /\ cur_rep = 0
    /\ rep = <<>>
    /\ i = 0

NextRemap ==
    \/ LoadE1
    \/ LoadE2
    \/ LoadE3
    \/ CastMove

SpecRemap == InitRemap /\ [][NextRemap]_vars

\* Session files whose remapped ids leave the range of int8: the labels are
\* read from the files as they are, nothing in lines 224-246 bounds them.
WideSessions == {ZeroBased(<<0, 100>>), ZeroBased(<<100, 27>>), ZeroBased(<<0, 44, 0>>)}

InitRemapWide ==
    /\ IdleSplit
    /\ IdleIdx
    /\ IdleWin
    /\ IdleSeg
    /\ pc = "remap_e1"
    /\ restimulus \in [1..3 -> Sessions \cup WideSessions]

SpecRemapWide == InitRemapWide /\ [][NextRemap]_vars

\* -------------------------------------------- import_db3: label remapper

\* Lines 600-608: the raw ids of the final session and what is added to
\* last_mov for each, in the order of the statements.
OverrideTable ==
    <<<<1, 1>>, <<2, 2>>, <<4, 3>>, <<6, 4>>, <<8, 5>>, <<9, 6>>, <<16, 7>>,
      <<32, 8>>, <<40, 9>>>>

\* data['restimulus'][np.where(data['restimulus'] == old)] = new
Replace(arr, old, new) == [p \in DOMAIN arr |-> IF arr[p] = old THEN new ELSE arr[p]]

\* The statements of lines 600-608 from statement j on, one after the other
\* on the same array.
RECURSIVE ApplyOverrides(_, _, _)
ApplyOverrides(arr, last_mov, j) ==
    IF j > Len(OverrideTable) THEN arr
    ELSE ApplyOverrides(Replace(arr, OverrideTable[j][1], last_mov + OverrideTable[j][2]),
                        last_mov, j + 1)

\* Lines 582-586: the first session's labels.
Db3LoadE1 ==
    /\ pc = "db3_e1"
    /\ move' = restimulus[1]
    /\ pc' = "db3_e2"
    /\ UNCHANGED <<rep_unique, rest_length_cap, segState, nonSegVars>>

\* Lines 588-593: the second session's labels, appended as they are.
Db3LoadE2 ==
    /\ pc = "db3_e2"
    /\ move' = Append1d(move, restimulus[2])
    /\ pc' = "db3_e3"
    /\ UNCHANGED <<rep_unique, rest_length_cap, segState, nonSegVars>>

\* Lines 594-610: last_mov = max(move) of the two sessions, the overrides,
\* and the final session appended.
Db3LoadE3 ==
    /\ pc = "db3_e3"
    /\ LET last_mov == BuiltinMax(move)
           move_tmp == ApplyOverrides(restimulus[3], last_mov, 1)
       IN  move' = Append1d(move, move_tmp)
    /\ pc' = "db3_cast"
    /\ UNCHANGED <<rep_unique, rest_length_cap, segState, nonSegVars>>

\* Line 611.
Db3Cast ==
    /\ pc = "db3_cast"
    /\ move' = [p \in DOMAIN move |-> AsInt8(move[p])]
    /\ pc' = "db3_done"
    /\ UNCHANGED <<rep_unique, rest_length_cap, segState, nonSegVars>>

\* The raw ids of the final session's file: rest and the ids of the table.
Db3FinalLabels == {0} \cup {OverrideTable[j][1] : j \in 1..Len(OverrideTable)}

\* The largest labels of the modelled second-session files (40 is the
\* largest label of the dataset's second session).
Db3SecondMaxima == {0, 1, 2, 3, 7, 40}

InitDb3 ==
    /\ IdleSplit
    /\ IdleIdx
    /\ IdleWin
    /\ IdleSeg
    /\ pc = "db3_e1"
    /\ \E first \in {ZeroBased(<<0>>), ZeroBased(<<0, 1>>)} :
       \E m \in Db3SecondMaxima :
       \E final \in {ZeroBased(q) : q \in SeqsOfLen(Db3FinalLabels, SessionLens)} :
           restimulus = <<first, ZeroBased(<<0, m>>), final>>

NextDb3 ==
    \/ Db3LoadE1
    \/ Db3LoadE2
    \/ Db3LoadE3
    \/ Db3Cast

SpecDb3 == InitDb3 /\ [][NextDb3]_vars

\* ------------------------------------------------ get_idxs, get_windows

\* np.where(in_array == x)[0]: the positions of x, ascending.
WhereDescending(in_array, x) ==
    LET up == SortedSeq({p \in DOMAIN in_array : in_array[p] = x})
    IN  [j \in 1..Len(up) |-> up[Len(up) + 1 - j]]

Where(in_array, x) == SortedSeq({p \in DOMAIN in_array : in_array[p] = x})

\* np.concatenate(targets, axis=1): the groups one after the other, in the
\* order of to_find.
RECURSIVE ConcatWhere(_, _)
ConcatWhere(in_array, to_find) ==
    IF to_find = <<>> THEN <<>>
    ELSE Where(in_array, Head(to_find)) \o ConcatWhere(in_array, Tail(to_find))

\* get_idxs (lines 893-894).  np.squeeze turns a single match into a
\* 0-dimensional array: ndim records the shape, vals the positions.
get_idxs(in_array, to_find) ==
    LET found == ConcatWhere(in_array, to_find)
    IN  [ndim |-> IF Len(found) = 1 THEN 0 ELSE 1, vals |-> found]

IdleSegRemap ==
    /\ IdleSeg
    /\ IdleRemap

\* get_idxs called on its own: np.concatenate of an empty list raises.
CallGetIdxs ==
    /\ pc = "idx_start"
    /\ IF given_values = <<>>
       THEN /\ pc' = "idx_error"
            /\ UNCHANGED <<idxVars, nonIdxVars>>
       ELSE /\ idxs' = get_idxs(given_array, given_values)
            /\ pc' = "idx_done"
            /\ UNCHANGED <<given_array, given_values, nonIdxVars>>

\* The values of the arrays handed to get_idxs.
IdxValues == {1, 2, 3}

\* np.unique(arr) as a sequence: the distinct values in ascending order.
Unique(arr) == SortedSeq({arr[p] : p \in DOMAIN arr})

\* The sequences of distinct values of S, in every order.
DistinctSeqs(S) ==
    {q \in SeqsOfLen(S, 0..Cardinality(S)) : Cardinality(Range(q)) = Len(q)}

InitIdx ==
    /\ IdleSplit
    /\ IdleSegRemap
    /\ IdleWin
    /\ pc = "idx_start"
    /\ \E n \in 1..MaxObs : given_array \in [0..(n - 1) -> IdxValues]
    /\ given_values \in DistinctSeqs(IdxValues) \cup {Unique(given_array)}
    /\ idxs = <<>>

NextIdx == CallGetIdxs

SpecIdx == InitIdx /\ [][NextIdx]_vars

\* Line 834: range(window_len - 1, nb_obs, window_inc).
PossibleTargetsFromLen(len, nb_obs, inc) ==
    LET count == IF nb_obs > len THEN ((nb_obs - len - 1) \div inc) + 1 ELSE 0
    IN  [k \in 0..(count - 1) |-> len + k * inc]

PossibleTargets(len, nb_obs, inc) ==
    LET count == IF nb_obs > len - 1 THEN ((nb_obs - len) \div inc) + 1 ELSE 0
    IN  [k \in 0..(count - 1) |-> (len - 1) + k * inc]

\* array[index_seq]: the elements at the positions of a sequence, as an array.
Take(array, positions) == [k \in 0..(Len(positions) - 1) |-> array[positions[k + 1]]]

\* Lines 851-852: emg[win_start:win_end + 1, :].
WindowRows(signal, win_end, len) ==
    LET win_start == win_end - (len - 1)
    IN  [r \in 1..len |-> signal[win_start + r - 1]]

WinFail ==
    /\ pc' = "win_error"
    /\ UNCHANGED <<winVars, nonWinVars>>

\* Lines 830-844: the window end positions.
SelectTargets ==
    /\ pc = "win_start"
    /\ LET possible_targets == PossibleTargets(window_len, Size(emg), window_inc)
           by_rep == get_idxs([k \in DOMAIN possible_targets |->
                                  repetitons[possible_targets[k]]], which_reps)
           ends == [j \in 1..Len(by_rep.vals) |->
                       (window_len - 1) + by_rep.vals[j] * window_inc]
           by_move == get_idxs(Take(movements, ends), which_moves)
       IN IF Size(possible_targets) = 0
          THEN WinFail    \* an empty float array used as an index
          ELSE IF by_rep.ndim = 0
          THEN WinFail    \* a 0-dimensional targets: no shape[0], no indexing
          ELSE IF which_moves = None
          THEN /\ targets' = ends
               /\ pc' = "win_fill"
               /\ UNCHANGED <<winInputs, X_data, Y_data, R_data, nonWinVars>>
          ELSE IF by_move.ndim = 0
          THEN WinFail    \* targets[move_targets] is a scalar: no shape[0]
          ELSE /\ targets' = [j \in 1..Len(by_move.vals) |-> ends[by_move.vals[j] + 1]]
               /\ pc' = "win_fill"
               /\ UNCHANGED <<winInputs, X_data, Y_data, R_data, nonWinVars>>

\* Lines 846-856: the windows and their labels, and the return.
FillWindows ==
    /\ pc = "win_fill"
    /\ X_data' = [j \in 1..Len(targets) |-> WindowRows(emg, targets[j], window_len)]
    /\ Y_data' = [j \in 1..Len(targets) |-> AsInt8(movements[targets[j]])]
    /\ R_data' = [j \in 1..Len(targets) |-> AsInt8(repetitons[targets[j]])]
    /\ pc' = "win_done"
    /\ UNCHANGED <<winInputs, targets, nonWinVars>>

\* The signal: row p is modelled by p.
Signal(n) == [p \in 0..(n - 1) |-> p]

\* The labels, window lengths and increments of the modelled calls.
WinRepLabels == {1, 2}

WinMoveLabels == {0, 1}

WindowLens == {1, 2}

WindowIncs == {1, 2}

WhichReps == {<<1>>, <<2>>, <<1, 2>>, <<2, 1>>, <<1, 1>>}

WhichMoves == {None, <<1>>, <<0, 1>>, <<1, 0>>, <<1, 1>>}

InitWinSmall ==
    /\ \E n \in 1..MaxObs :
           /\ emg = Signal(n)
           /\ repetitons \in [0..(n - 1) -> WinRepLabels]
           /\ movements \in [0..(n - 1) -> WinMoveLabels]
    /\ window_len \in WindowLens
    /\ window_inc \in WindowIncs
    /\ which_reps \in WhichReps
    /\ which_moves \in WhichMoves

\* The documented example: 12 samples of one repetition and one movement,
\* windows of 5 every 2.
InitWinExample ==
    /\ emg = Signal(12)
    /\ repetitons = [p \in 0..11 |-> 1]
    /\ movements = [p \in 0..11 |-> 1]
    /\ window_len = 5
    /\ window_inc = 2
    /\ which_reps = <<1>>
    /\ which_moves \in {None, <<1>>}

InitWin ==
    /\ IdleSplit
    /\ IdleIdx
    /\ IdleSegRemap
    /\ pc = "win_start"
    /\ InitWinSmall \/ InitWinExample
    /\ targets = <<>>
    /\ X_data = <<>>
    /\ Y_data = <<>>
    /\ R_data = <<>>

NextWin ==
    \/ SelectTargets
    \/ FillWindows

SpecWin == InitWin /\ [][NextWin]_vars

\* ------------------------------------------------ claims: split generators

Returned(m) == pc = "done" /\ mode = m

\* The ids of one row, as a set.
RowSet(row) == Range(row)

\* C1: gen_split_balanced called with n distinct ids and 1 <= nb_test < n
\* returns, when it returns, n folds of nb_test distinct test ids each, and
\* every id occurs in the test table exactly nb_test times.
C1_BalancedExact ==
    (Returned("balanced") /\ nb_test < Len(rep_ids)) =>
        /\ Len(test_reps) = Len(rep_ids)
        /\ \A r \in 1..Len(test_reps) :
               /\ Len(test_reps[r]) = nb_test
               /\ Cardinality(RowSet(test_reps[r])) = nb_test
               /\ RowSet(test_reps[r]) \subseteq Range(rep_ids)
        /\ \A v \in Range(rep_ids) : CountIn(test_reps, Len(test_reps), v) = nb_test

\* C1 witness: a balanced table returned for 4 ids, 2 per fold, after a draw
\* was rejected (the pool lost more combinations than folds were drawn).
C1_Witness ==
    /\ Returned("balanced")
    /\ Len(rep_ids) = 4
    /\ nb_test = 2
    /\ Len(all_combos) < 2

\* C2: in both generators every returned fold's train row and test row are
\* disjoint and together hold exactly the repetition ids passed in.
C2_TrainIsComplement ==
    pc = "done" =>
        /\ Len(train_reps) = nb_splits
        /\ Len(test_reps) = nb_splits
        /\ \A r \in 1..nb_splits :
               /\ RowSet(train_reps[r]) \cap RowSet(test_reps[r]) = {}
               /\ RowSet(train_reps[r]) \cup RowSet(test_reps[r]) = Range(rep_ids)
               /\ Len(train_reps[r]) = Len(rep_ids) - nb_test

\* C2 witness: gen_split_rand returned three folds of 4 ids, fold 0 pinned.
C2_Witness ==
    /\ Returned("rand")
    /\ Len(rep_ids) = 4
    /\ nb_splits = 3
    /\ base # None
    /\ test_reps[1] = base
    /\ test_reps[2] # test_reps[3]

\* The folds filled so far: all of them once the function returned, the
\* folds 0..cur_split-1 while gen_split_rand draws.
FilledFolds ==
    IF pc = "done" THEN 1..nb_splits
    ELSE IF pc = "rand_loop" THEN 1..cur_split
    ELSE {}

\* C3: no two folds of one call hold the same test combination (as a set):
\* in gen_split_rand after every draw, in gen_split_balanced in the table
\* returned; no drawn fold equals base.
C3_NoCombinationReused ==
    /\ \A r1, r2 \in FilledFolds :
           r1 # r2 => RowSet(test_reps[r1]) # RowSet(test_reps[r2])
    /\ base # None =>
           \A r \in FilledFolds : r > 1 => RowSet(test_reps[r]) # RowSet(base)

\* C3 witness: a balanced table of four folds returned with base as fold 0,
\* after a restart or a rejected draw.
C3_Witness ==
    /\ Returned("balanced")
    /\ base # None
    /\ nb_splits = 4
    /\ nb_test = 2
    /\ Len(all_combos) < 2

\* C13: with nb_test >= the number of repetition ids neither generator
\* returns tables: the call fails.
C13_TooManyTestIdsFail ==
    nb_test >= Len(rep_ids) /\ mode # "idle" => pc # "done"

\* base is one of the nb_test-sized combinations of rep_ids as enumerated:
\* nb_test ids in the order of rep_ids (ascending, for ids given ascending).
BaseIsCombination ==
    /\ Len(base) = nb_test
    /\ Range(base) \subseteq Range(rep_ids)
    /\ \A a, b \in 1..Len(base) : a < b => base[a] < base[b]

\* C14: with a base that is not exactly one of the nb_test-sized combinations
\* of rep_ids, both generators fail before drawing a fold and return no
\* tables.
C14_InvalidBaseFails ==
    (base # None /\ ~BaseIsCombination) =>
        /\ pc \in {"balanced_start", "rand_start", "error"}
        /\ test_reps = <<>>
        /\ train_reps = <<>>

\* C14 witness: a call failed whose base holds the ids of a combination in
\* another order.
C14_Witness ==
    /\ pc = "error"
    /\ base # None
    /\ nb_test < Len(rep_ids)
    /\ Len(base) = nb_test
    /\ Range(base) \subseteq Range(rep_ids)
    /\ Cardinality(Range(base)) = nb_test
    /\ ~BaseIsCombination

\* The combinations of the folds accepted since the last restart (fold 0 is
\* base when base is given, and base is never in the pool).
AcceptedFolds == {test_reps[r] : r \in (FirstSplit + 1)..cur_split}

\* C20: in gen_split_balanced only an accepted fold consumes its combination:
\* while the loop runs the pool holds every combination of the restart pool
\* except those of the folds accepted since, so a rejected combination is
\* still there to be drawn.
C20_RejectedDrawStaysInPool ==
    (mode = "balanced" /\ pc = "balanced_loop") =>
        Range(all_combos) = Range(all_combos_copy) \ AcceptedFolds

\* The nb_test-sized combinations of rep_ids, by their definition: the
\* rows of nb_test ids in ascending order.
AllCombinations ==
    {q \in [1..nb_test -> Range(rep_ids)] :
        \A a, b \in 1..nb_test : a < b => q[a] < q[b]}

\* The rows of a table from row r (1-based) on are still zero.
ZeroFrom(tests, r) ==
    \A x \in r..Len(tests) : \A c \in 1..Len(tests[x]) : tests[x][c] = 0

\* One more pass of the while loop of gen_split_balanced.
LoopPass == mode = "balanced" /\ pc = "balanced_loop" /\ pc' = "balanced_loop"

\* The pass starts with a restart: the fold index, the table, the pool and
\* the retry counter are those of a first draw from the restart pool.
PassAfterRestart ==
    /\ Len(all_combos') = Len(all_combos_copy) - 1
    /\ Range(all_combos') \subseteq Range(all_combos_copy)
    /\ cur_split' \in {FirstSplit, FirstSplit + 1}
    /\ reset_counter' = (IF cur_split' = FirstSplit THEN 1 ELSE 0)
    /\ ZeroFrom(test_reps', cur_split' + 1)
    /\ base # None => test_reps'[1] = base
    /\ cur_split' = FirstSplit + 1 =>
           test_reps'[cur_split'] \in Range(all_combos_copy) \ Range(all_combos')

\* The pass draws without a restart: the accepted folds stay, one
\* combination leaves the pool, and the retry counter is cleared by an
\* accepted draw and counts a rejected one.
PassWithoutRestart ==
    /\ Len(all_combos') = Len(all_combos) - 1
    /\ Range(all_combos') \subseteq Range(all_combos)
    /\ \A r \in 1..cur_split : test_reps'[r] = test_reps[r]
    /\ \/ cur_split' = cur_split + 1 /\ reset_counter' = 0
       \/ cur_split' = cur_split /\ reset_counter' = reset_counter + 1

\* C21: a pass of the loop of gen_split_balanced restarts exactly when 10
\* consecutive draws were rejected or the pool is empty (folds are missing
\* in every pass); a restart discards the accepted folds, sets the fold
\* index to 0 (to 1 with base kept as fold 0), restores the pool to every
\* combination but base and clears the retry counter; an accepted draw
\* clears the retry counter.
C21_RestartExactlyWhenDue ==
    [][LoopPass =>
          /\ cur_split < nb_splits
          /\ Range(all_combos_copy) = AllCombinations \ {base}
          /\ IF reset_counter >= 10 \/ Len(all_combos) = 0
             THEN PassAfterRestart
             ELSE PassWithoutRestart]_vars

\* C21 witness: ten draws in a row were rejected while folds are missing
\* and combinations are left in the pool: the next pass restarts.
C21_Witness ==
    /\ mode = "balanced"
    /\ pc = "balanced_loop"
    /\ reset_counter = 10
    /\ Len(all_combos) > 0
    /\ cur_split < nb_splits
    /\ cur_split > FirstSplit

\* C23: a call of gen_split_balanced with n distinct ids, 1 <= nb_test < n,
\* and no base or a base that is one of the combinations returns in the end
\* when the random draws are fair.
C23_BalancedEventuallyReturns ==
    (/\ mode = "balanced"
     /\ nb_test < Len(rep_ids)
     /\ (base = None \/ BaseIsCombination)) ~> (pc = "done")

\* C23 witness: a call with 4 ids and 2 per fold returned after rejected
\* draws used up the pool but for one combination at most.
C23_Witness ==
    /\ Returned("balanced")
    /\ Len(rep_ids) = 4
    /\ nb_test = 2
    /\ base = None
    /\ Len(all_combos) <= 1
    /\ reset_counter = 0

\* ------------------------------------------------------ claims: segmenter

SegReturned == pc = "seg_done"

NbSamples == Size(move)

NbTransitions == Size(move_regions)

\* The region boundary table has a row for every two entries of rep_regions.
NbRows == Size(rep_regions) \div 2

RowStart(k) == rep_regions[2 * k]

RowEnd(k) == rep_regions[2 * k + 1]

InRow(p, k) == RowStart(k) <= p /\ p <= RowEnd(k)

\* The stream starts and ends at rest and holds a gesture.
WellFormedStream ==
    /\ NbSamples >= 3
    /\ move[0] = 0
    /\ move[NbSamples - 1] = 0
    /\ \E p \in DOMAIN move : move[p] # 0

C5_CappedEvenTwicePairs ==
    /\ nb_capped % 2 = 0
    /\ nb_capped = 2 * Cardinality({k \in 0..(i - 1) : OverCap(move_regions, k)})

\* C5 witness: a returned segmentation with one rest kept and one truncated.
C5_Witness ==
    /\ SegReturned
    /\ i = 2
    /\ nb_capped = 2

\* C6, as claimed: for every input no returned label exceeds the cycle
\* length, the number of distinct raw repetition values minus one.
C6_LabelsWithinCycleAlways ==
    SegReturned => \A p \in DOMAIN rep : rep[p] <= Cardinality(rep_unique) - 1

\* C6, amended: the same whenever the raw repetition stream holds at least
\* two distinct values (a cycle length of at least 1); checked in every state.
C6_LabelsWithinCycle ==
    Cardinality(rep_unique) >= 2 =>
        \A p \in DOMAIN rep : rep[p] <= Cardinality(rep_unique) - 1

\* C6 witness: three blocks labelled with a cycle of two: 1, 2 and 1 again.
C6_Witness ==
    /\ SegReturned
    /\ Cardinality(rep_unique) = 3
    /\ NbRows = 3
    /\ rep[RowStart(0)] = 1
    /\ rep[RowStart(1) + 1] = 2
    /\ rep[RowEnd(2)] = 1

RECURSIVE SumRowLengths(_)
SumRowLengths(k) ==
    IF k < 0 THEN 0
    ELSE (RowEnd(k) - RowStart(k) + 1) + SumRowLengths(k - 1)

\* The label-0 samples lying between two rows whose rest was truncated.
TruncationGapSamples ==
    {p \in DOMAIN rep :
        /\ rep[p] = 0
        /\ \E k \in 0..(NbRows - 2) :
               OverCap(move_regions, k) /\ RowEnd(k) < p /\ p < RowStart(k + 1)}

UnassignedSamples == {p \in DOMAIN rep : rep[p] = 0}

\* The samples lying in two rows.
SharedSamples ==
    {p \in DOMAIN rep :
        \E k1, k2 \in 0..(NbRows - 1) : k1 # k2 /\ InRow(p, k1) /\ InRow(p, k2)}

ConstantStream == \A p, q \in DOMAIN move : move[p] = move[q]

\* C15: on a movement label stream without a transition the segmenter fails
\* at its first step and produces no repetition labels, no region table and
\* no truncation count.
C15_NoTransitionsFail ==
    ConstantStream =>
        /\ pc \in {"seg_start", "seg_error"}
        /\ rep = <<>>
        /\ rep_regions = <<>>
        /\ nb_capped = 0

\* C15 witness: the segmenter failed on a constant stream of three samples or
\* more.
C15_Witness ==
    /\ pc = "seg_error"
    /\ ConstantStream
    /\ NbSamples >= 3

\* round(num / 2) by its definition: the nearest integer, the even one of the
\* two when num is odd.
HalfToEven(num) ==
    CHOOSE r \in 0..num :
        \/ 2 * r = num
        \/ (2 * r - num \in {-1, 1} /\ r % 2 = 0)

\* The length of the longest run of rest samples of the stream.
LongestRestRun ==
    SetMax({0} \cup {b - a + 1 : <<a, b>> \in
                       {<<a2, b2>> \in (DOMAIN move) \X (DOMAIN move) :
                           a2 <= b2 /\ \A p \in a2..b2 : move[p] = 0}})

\* Pure midpoint-splitting: nothing truncated, the first block starts at
\* round(first transition / 2), consecutive blocks meet at
\* round((t1 + t2) / 2) + 1, the last block ends just before
\* round((length + last transition) / 2), and no label 0 in between.
PureMidpointSplit ==
    /\ nb_capped = 0
    /\ RowStart(0) = HalfToEven(move_regions[0])
    /\ \A k \in 0..(NbRows - 2) :
           /\ RowStart(k + 1) =
                  HalfToEven(move_regions[2 * k + 1] + move_regions[2 * k + 2]) + 1
           /\ RowEnd(k) = RowStart(k + 1) - 1
    /\ RowEnd(NbRows - 1) =
           HalfToEven(NbSamples + move_regions[NbTransitions - 1]) - 1
    /\ \A p \in RowStart(0)..RowEnd(NbRows - 1) : rep[p] # 0

C17_TableComplete ==
    SegReturned =>
        /\ Size(rep_regions) = 2 * nb_reps
        /\ \A k \in 0..(nb_reps - 1) :
               /\ RowStart(k) <= RowEnd(k)
               /\ \A p \in RowStart(k)..RowEnd(k) : rep[p] # 0

\* C18: where a rest run is truncated with a cap of c samples, the truncated
\* block's row ends c rest samples after its gesture's last sample
\* (transition t1) and the next row starts c rest samples before its
\* gesture's first sample (transition t2 + 1).
C18_SymmetricCap ==
    (SegReturned /\ WellFormedStream) =>
        \A k \in 0..(NbRows - 2) :
            OverCap(move_regions, k) =>
                /\ RowEnd(k) - move_regions[2 * k + 1] = CapSamples
                /\ (move_regions[2 * k + 2] + 1) - RowStart(k + 1) = CapSamples

\* C19: where a rest run is truncated, the truncated block's recorded end is
\* strictly before the next block's recorded start, every sample strictly
\* between them keeps label 0, and so no sample is labelled by both blocks.
C19_TrueGap ==
    (SegReturned /\ NbTransitions % 2 = 0) =>
        \A k \in 0..(NbRows - 2) :
            OverCap(move_regions, k) =>
                /\ RowEnd(k) < RowStart(k + 1)
                /\ \A p \in DOMAIN rep :
                       (RowEnd(k) < p /\ p < RowStart(k + 1)) => rep[p] = 0

\* C24: for a stream that starts and ends at rest, with rest between its
\* gestures, and for every cap >= 0, every gesture sample has a nonzero
\* repetition label and the samples of one gesture occurrence have the same
\* label.
C24_GesturesLabelledUniformly ==
    (SegReturned /\ WellFormedStream) =>
        /\ \A p \in DOMAIN move : move[p] # 0 => rep[p] # 0
        /\ \A p \in DOMAIN move :
               (p + 1 \in DOMAIN move /\ move[p] # 0 /\ move[p + 1] # 0) =>
                   rep[p] = rep[p + 1]

\* ------------------------------------------------------ claims: get_windows

WinReturned == pc = "win_done"

WinEnded == pc \in {"win_done", "win_error"}

\* The candidate end positions whose labels pass the filters.
QualifyingEnds ==
    {e \in DOMAIN emg :
        /\ e >= window_len - 1
        /\ (e - (window_len - 1)) % window_inc = 0
        /\ repetitons[e] \in Range(which_reps)
        /\ which_moves # None => movements[e] \in Range(which_moves)}

DistinctValues(seq) == Cardinality(Range(seq)) = Len(seq)

DistinctFilters == DistinctValues(which_reps) /\ DistinctValues(which_moves)

\* The signal rows e-L+1..e.
RowsEndingAt(e) == [r \in 1..window_len |-> e - window_len + r]

\* The end position of returned window j: its last row.
WindowEnd(j) == X_data[j][window_len]

\* C8: with at least two qualifying end positions and distinct values in
\* which_reps and which_moves, get_windows returns exactly one window per
\* qualifying end e: the rows e-L+1..e, labelled with the movement and the
\* repetition at e.
C8_OneWindowPerQualifyingEnd ==
    (WinEnded /\ DistinctFilters /\ Cardinality(QualifyingEnds) >= 2) =>
        /\ WinReturned
        /\ Len(X_data) = Cardinality(QualifyingEnds)
        /\ Len(Y_data) = Len(X_data)
        /\ Len(R_data) = Len(X_data)
        /\ \A e \in QualifyingEnds :
               \E j \in 1..Len(X_data) :
                   /\ X_data[j] = RowsEndingAt(e)
                   /\ Y_data[j] = movements[e]
                   /\ R_data[j] = repetitons[e]

\* C8 witness: the documented example, windows ending at 4, 6, 8 and 10.
C8_Witness ==
    /\ WinReturned
    /\ Size(emg) = 12
    /\ which_moves = None
    /\ X_data = <<RowsEndingAt(4), RowsEndingAt(6), RowsEndingAt(8), RowsEndingAt(10)>>
    /\ Y_data = <<1, 1, 1, 1>>
    /\ R_data = <<1, 1, 1, 1>>

\* C25: when exactly one candidate end position passes the filters,
\* get_windows returns exactly one window, the rows ending there, with the
\* movement and the repetition label of that position.
C25_SingleWindowReturned ==
    (WinEnded /\ DistinctFilters /\ Cardinality(QualifyingEnds) = 1) =>
        /\ WinReturned
        /\ Len(X_data) = 1
        /\ Len(Y_data) = 1
        /\ Len(R_data) = 1
        /\ \A e \in QualifyingEnds :
               /\ X_data[1] = RowsEndingAt(e)
               /\ Y_data[1] = movements[e]
               /\ R_data[1] = repetitons[e]

\* C9, as claimed: the returned windows are in ascending end position for
\* every which_reps and which_moves (read for filters of distinct values: a
\* repeated id returns its windows twice, in no strictly ascending order).
C9_WindowsAscendAlways ==
    (WinReturned /\ DistinctFilters) =>
        \A a, b \in 1..Len(X_data) : a < b => WindowEnd(a) < WindowEnd(b)

\* The first place of value v in a sequence.
PlaceIn(seq, v) == SetMin({j \in 1..Len(seq) : seq[j] = v})

\* The order get_windows returns windows in: the place of the movement label
\* in which_moves, then the place of the repetition label in which_reps,
\* then the end position.
Precedes(a, b) ==
    LET ma == IF which_moves = None THEN 0 ELSE PlaceIn(which_moves, Y_data[a])
        mb == IF which_moves = None THEN 0 ELSE PlaceIn(which_moves, Y_data[b])
        ra == PlaceIn(which_reps, R_data[a])
        rb == PlaceIn(which_reps, R_data[b])
    IN  \/ ma < mb
        \/ ma = mb /\ ra < rb
        \/ ma = mb /\ ra = rb /\ WindowEnd(a) < WindowEnd(b)

\* C9, amended: with distinct values in which_reps and which_moves the
\* windows are grouped by movement id in the order of which_moves, within a
\* movement by repetition id in the order of which_reps, and ascend by end
\* position within a group; they ascend overall when one repetition id and
\* at most one movement id are asked for.
C9_WindowsGroupedThenAscending ==
    (WinReturned /\ DistinctFilters) =>
        /\ \A a, b \in 1..Len(X_data) : a < b => Precedes(a, b)
        /\ (Len(which_reps) = 1 /\ Len(which_moves) <= 1) =>
               \A a, b \in 1..Len(X_data) : a < b => WindowEnd(a) < WindowEnd(b)

\* C9 witness: repetitions 1 and 2 asked for as <<2, 1>>: a window of
\* repetition 2 is returned before an earlier window of repetition 1.
C9_Witness ==
    /\ WinReturned
    /\ which_reps = <<2, 1>>
    /\ which_moves = None
    /\ Len(X_data) >= 3
    /\ R_data[1] = 2
    /\ R_data[Len(R_data)] = 1
    /\ WindowEnd(1) > WindowEnd(Len(X_data))

\* ------------------------------------------------- claims: label remapper

RemapReturned == pc = "remap_done"

\* Where session k (1-based) starts in the concatenated stream.
SessionStart(k) ==
    IF k = 1 THEN 0
    ELSE IF k = 2 THEN Size(restimulus[1])
    ELSE Size(restimulus[1]) + Size(restimulus[2])

\* The largest label of the sessions concatenated before session k, as
\* returned.
PriorMax(k) ==
    IF k = 1 THEN 0
    ELSE SetMax({move[p] : p \in 0..(SessionStart(k) - 1)})

\* C10: in the returned stream every nonzero label of session k > 1 is its
\* raw label plus the largest label of the sessions concatenated before it,
\* label 0 stays 0, and gestures of different sessions never share an id;
\* three sessions [0,1,2,0] give [0,1,2,0,0,3,4,0,0,5,6,0].
C10_OffsetByPriorMax ==
    RemapReturned =>
        /\ Size(move) = SessionStart(3) + Size(restimulus[3])
        /\ \A k \in 1..3 : \A j \in DOMAIN restimulus[k] :
               move[SessionStart(k) + j] =
                   IF restimulus[k][j] = 0 THEN 0
                   ELSE restimulus[k][j] + PriorMax(k)
        /\ \A k1, k2 \in 1..3 :
               \A j1 \in DOMAIN restimulus[k1] : \A j2 \in DOMAIN restimulus[k2] :
                   (k1 # k2 /\ restimulus[k1][j1] # 0 /\ restimulus[k2][j2] # 0) =>
                       move[SessionStart(k1) + j1] # move[SessionStart(k2) + j2]
        /\ (\A k \in 1..3 : restimulus[k] = ExampleSession) =>
               move = ZeroBased(<<0, 1, 2, 0, 0, 3, 4, 0, 0, 5, 6, 0>>)

\* C10 witness: the documented example, remapped and returned.
C10_Witness ==
    /\ RemapReturned
    /\ \A k \in 1..3 : restimulus[k] = ExampleSession
    /\ move[5] = 3
    /\ move[10] = 6
    /\ move[8] = 0

\* The values an int8 holds.
Int8Range == -128..127

\* The id the default rule gives sample j of session k, computed over the
\* integers: the raw label plus the largest id of the sessions before it.
RECURSIVE RemappedId(_, _)
RemappedId(k, j) ==
    IF k = 1 \/ restimulus[k][j] = 0 THEN restimulus[k][j]
    ELSE restimulus[k][j] +
         SetMax({RemappedId(q, x) : <<q, x>> \in
                    {<<q2, x2>> \in (1..(k - 1)) \X (0..MaxSessionLen) :
                        x2 \in DOMAIN restimulus[q2]}})

\* C11: the remapper never returns a movement stream when a remapped id
\* falls outside the signed 8-bit range: it fails (or clamps and flags; the
\* code has no flag to raise), so a returned stream holds no wrapped id.
C11_NoSilentWrap ==
    RemapReturned =>
        \A k \in 1..3 : \A j \in DOMAIN restimulus[k] :
            /\ RemappedId(k, j) \in Int8Range
            /\ move[SessionStart(k) + j] = RemappedId(k, j)


\* ------------------------------------------------------- claims: get_idxs

IdxReturned == pc = "idx_done"

\* C12: get_idxs returns a one-dimensional sequence of the positions where
\* in_array equals a value of to_find, grouped in the order the values were
\* given and ascending within a group; with to_find the unique values of
\* in_array it is a permutation of 0..len(in_array)-1, for every non-empty
\* in_array.
C12_GroupedPositionsPermutation ==
    IdxReturned =>
        /\ idxs.ndim = 1
        /\ \A a \in 1..Len(idxs.vals) :
               /\ idxs.vals[a] \in DOMAIN given_array
               /\ given_array[idxs.vals[a]] \in Range(given_values)
        /\ \A a, b \in 1..Len(idxs.vals) :
               a < b =>
                   \/ PlaceIn(given_values, given_array[idxs.vals[a]])
                          < PlaceIn(given_values, given_array[idxs.vals[b]])
                   \/ /\ given_array[idxs.vals[a]] = given_array[idxs.vals[b]]
                      /\ idxs.vals[a] < idxs.vals[b]
        /\ given_values = Unique(given_array) =>
               /\ Len(idxs.vals) = Size(given_array)
               /\ Range(idxs.vals) = DOMAIN given_array

\* ---------------------------------------- claims: import_db3's remapper

Db3Returned == pc = "db3_done"

\* The largest label of the first two sessions' files.
Db3PriorMax ==
    SetMax({restimulus[k][j] : <<k, j>> \in
               {<<k2, j2>> \in {1, 2} \X (0..MaxSessionLen) :
                   j2 \in DOMAIN restimulus[k2]}})

\* The fixed table applied to one raw id at once: the id's place in
\* 1, 2, 4, 6, 8, 9, 16, 32, 40 added to m; 0 stays 0.
TableLookup(raw, m) ==
    IF raw = 0 THEN 0
    ELSE m + (CHOOSE j \in 1..9 : <<1, 2, 4, 6, 8, 9, 16, 32, 40>>[j] = raw)

\* C22: for every largest label m of the prior sessions the final session
\* of import_db3 is returned as the fixed table applied to every raw id at
\* once (1, 2, 4, 6, 8, 9, 16, 32, 40 to m+1..m+9, 0 to 0), and two
\* different raw ids never get the same output id.
C22_OverrideIsSimultaneousTable ==
    Db3Returned =>
        LET start == Size(restimulus[1]) + Size(restimulus[2]) IN
        /\ \A j \in DOMAIN restimulus[3] :
               move[start + j] = TableLookup(restimulus[3][j], Db3PriorMax)
        /\ \A j1, j2 \in DOMAIN restimulus[3] :
               restimulus[3][j1] # restimulus[3][j2] =>
                   move[start + j1] # move[start + j2]

====
